---- MODULE Spec2Model ----
(***************************************************************************)
(* Verification development for the Hedy front end:                        *)
(*   - the level grammar (tokens, keyword resolution, command shapes),     *)
(*   - the HTMX "disable-element" extension.                               *)
(* Characters are Unicode code points (integers), an input is a sequence   *)
(* of code points, a token is a span [kind, from, to] over the input.      *)
(***************************************************************************)
EXTENDS Integers, Sequences, FiniteSets

VARIABLES input, pc, tokens, next, program, disabled, inflight,
          handlers, current_exercise, max_exercise, requests, xs, xi

vars == <<input, pc, tokens, next, program, disabled, inflight,
          handlers, current_exercise, max_exercise, requests, xs, xi>>

parseVars == <<input, pc, tokens, next, program>>
htmxVars == <<disabled, inflight>>
buttonVars == <<handlers, current_exercise, max_exercise, requests>>
parsonsVars == <<buttonVars, xs, xi>>

(***************************************************************************)
(* Bounds of the model.                                                    *)
(***************************************************************************)
MaxLen == 3
MaxWords == 4
MaxLines == 3
MaxInFlight == 2
MaxExercise == 3
MaxHandlers == 2
MaxN == 6

(***************************************************************************)
(* Generic helpers.                                                        *)
(***************************************************************************)
RECURSIVE JoinWith(_, _)
JoinWith(ss, sep) ==
    IF ss = <<>> THEN <<>>
    ELSE IF Len(ss) = 1 THEN ss[1]
    ELSE ss[1] \o sep \o JoinWith(Tail(ss), sep)

SeqsUpTo(S, n) == UNION { [1..k -> S] : k \in 0..n }

(***************************************************************************)
(* @tokens: character classes.                                             *)
(***************************************************************************)
NL == 10
SP == 32
HASH == 35
DQUOTE == 34
SQUOTE == 39
BACKSLASH == 92

\* symbol { $[!%&()*+\-./:;<>=?@\[\]\\\^\{\}`~$_] }
symbol == {33, 37, 38, 40, 41, 42, 43, 45, 46, 47, 58, 59, 60, 62, 61, 63,
           64, 91, 93, 92, 94, 123, 125, 96, 126, 36, 95}

asciiLetter == (65..90) \cup (97..122)
digit == 48..57

\* identifierChar: letters and U+00A1..U+10FFFF without the three non-ASCII
\* commas U+060C, U+3001, U+FF0C.
identifierChar_commaIncluded(c) ==
    \/ c \in asciiLetter
    \/ (c >= 161 /\ c <= 1114111)

identifierChar(c) ==
    \/ c \in asciiLetter
    \/ (c >= 161 /\ c <= 1547)
    \/ (c >= 1549 /\ c <= 12288)
    \/ (c >= 12290 /\ c <= 65291)
    \/ (c >= 65293 /\ c <= 1114111)

\* Text { (identifierChar | symbol | @digit)+ }: the characters of a Text run.
TextChar(c) == identifierChar(c) \/ c \in symbol \/ c \in digit

\* Op<',' | U+060C | U+FF0C | U+3001>: the literal separator tokens.
Op == {44, 1548, 65292, 12289}

(***************************************************************************)
(* @tokens: the token at position p of s, by longest match.                *)
(***************************************************************************)
Tok(k, f, t) == [kind |-> k, from |-> f, to |-> t]

\* Text: the maximal run of TextChar starting at p.
Text(s, p) ==
    CHOOSE q \in p..Len(s) :
        /\ \A k \in p..q : TextChar(s[k])
        /\ (q = Len(s) \/ ~TextChar(s[q + 1]))

\* Comment { "#" ![\n]* }: up to, and excluding, the next newline.
Comment_throughNewline(s, p) ==
    CHOOSE q \in p..Len(s) :
        /\ \A k \in (p + 1)..(q - 1) : s[k] # NL
        /\ (q = Len(s) \/ s[q] = NL)

Comment(s, p) ==
    CHOOSE q \in p..Len(s) :
        /\ \A k \in (p + 1)..q : s[k] # NL
        /\ (q = Len(s) \/ s[q + 1] = NL)

\* String: the closing quotes that end a string opened at p (at most one).
String(s, p) ==
    { q \in (p + 1)..Len(s) :
        /\ s[q] = s[p]
        /\ \A k \in (p + 1)..(q - 1) : s[k] \notin {BACKSLASH, NL, s[p]} }

\* A position where no token rule matches yields the parser's one-character
\* error token, kind "Err".
NextToken(s, p) ==
    LET c == s[p] IN
    IF c = NL THEN Tok("newline", p, p)
    ELSE IF c = SP THEN Tok("space", p, p)
    ELSE IF c = HASH THEN Tok("Comment", p, Comment(s, p))
    ELSE IF TextChar(c) THEN Tok("Text", p, Text(s, p))
    ELSE IF c \in Op THEN Tok("Op", p, p)
    ELSE IF c \in {DQUOTE, SQUOTE} /\ String(s, p) # {}
         THEN Tok("String", p, CHOOSE q \in String(s, p) : TRUE)
    ELSE Tok("Err", p, p)

RECURSIVE LexFrom(_, _)
LexFrom(s, p) ==
    IF p > Len(s) THEN <<>>
    ELSE LET t == NextToken(s, p) IN <<t>> \o LexFrom(s, t.to + 1)

\* @skip { space | Comment }
skip == {"space", "Comment"}

(***************************************************************************)
(* Keyword resolution.  The keyword table of the active locale (English)   *)
(* gives every role its spelling.                                          *)
(***************************************************************************)
specialized == {"ask", "at", "random"}

extended == {"print", "forward", "turn", "color", "sleep", "play", "is",
             "add", "from", "remove", "to_list", "clear"}

KeywordTable ==
    [ask     |-> <<97, 115, 107>>,
     at      |-> <<97, 116>>,
     random  |-> <<114, 97, 110, 100, 111, 109>>,
     print   |-> <<112, 114, 105, 110, 116>>,
     forward |-> <<102, 111, 114, 119, 97, 114, 100>>,
     turn    |-> <<116, 117, 114, 110>>,
     color   |-> <<99, 111, 108, 111, 114>>,
     sleep   |-> <<115, 108, 101, 101, 112>>,
     play    |-> <<112, 108, 97, 121>>,
     is      |-> <<105, 115>>,
     add     |-> <<97, 100, 100>>,
     from    |-> <<102, 114, 111, 109>>,
     remove  |-> <<114, 101, 109, 111, 118, 101>>,
     to_list |-> <<116, 111>>,
     clear   |-> <<99, 108, 101, 97, 114>>]

\* The role keywords a spelling can stand for; the result is a set with at
\* most one element, the empty set standing for "no keyword".
\* specializeKeyword answers with a role only where the parser can shift it.
specializeKeyword(name, shiftable) ==
    { r \in specialized : KeywordTable[r] = name /\ r \in shiftable }

extendKeyword(name) ==
    { r \in extended : KeywordTable[r] = name }

(***************************************************************************)
(* The grammar as an automaton over token roles.  A parser state is a pair *)
(* <<rule, phase>>; a transition [from, on, to, join] reads one token of   *)
(* role "on"; join says the token extends the last child of the node       *)
(* (a ListAccess or a Text+ run) instead of starting a new child.          *)
(***************************************************************************)
Tr(f, r, t, j) == [from |-> f, on |-> r, to |-> t, join |-> j]

\* Command { Assign | AssignList | Ask | Clear | Print | Play | Turtle |
\*           Sleep | Add | Remove | ErrorInvalid }: the first token of each.
Command ==
    { Tr(<<"Command", "start">>, "Text", <<"Var", "name">>, FALSE) }
    \cup { Tr(<<"Command", "start">>, k, <<k, "kw">>, FALSE) :
             k \in {"print", "sleep", "play", "add", "remove", "clear",
                    "forward", "turn", "color"} }
    \cup { Tr(<<k, "kw">>, k, <<k, "kw">>, FALSE) :
             k \in {"print", "sleep", "play", "add", "remove", "clear",
                    "forward", "turn", "color"} }

\* ListAccess { Text at+ (random+ | Text) } inside rule R, entered from the
\* state <<R, "text">> that follows a Text.
ListAccess_randomOnly(R) ==
    { Tr(<<R, "text">>, "at", <<R, "at">>, TRUE),
      Tr(<<R, "at">>, "at", <<R, "at">>, TRUE),
      Tr(<<R, "at">>, "random", <<R, "rnd">>, TRUE),
      Tr(<<R, "rnd">>, "random", <<R, "rnd">>, TRUE) }

ListAccess(R) ==
    { Tr(<<R, "text">>, "at", <<R, "at">>, TRUE),
      Tr(<<R, "at">>, "at", <<R, "at">>, TRUE),
      Tr(<<R, "at">>, "random", <<R, "rnd">>, TRUE),
      Tr(<<R, "rnd">>, "random", <<R, "rnd">>, TRUE),
      Tr(<<R, "at">>, "Text", <<R, "done">>, TRUE) }

\* ( String | Text | ListAccess )+ after the keywords of rule R.
Arguments(R) ==
    { Tr(<<R, ph>>, "String", <<R, "done">>, FALSE) :
        ph \in {"kw", "done", "text", "rnd"} }
    \cup { Tr(<<R, ph>>, "Text", <<R, "text">>, FALSE) :
             ph \in {"kw", "done", "text", "rnd"} }
    \cup ListAccess(R)

\* (Text | ListAccess) after the keywords of rule R.
Argument(R) ==
    { Tr(<<R, "kw">>, "Text", <<R, "text">>, FALSE) } \cup ListAccess(R)

\* Print { print+ ( String | Text | ListAccess )+ }
PrintCommand == Arguments("print")

\* The common prefix  Text is+  of Assign, AssignList and Ask.
Var ==
    { Tr(<<"Var", "name">>, "is", <<"Var", "is">>, FALSE),
      Tr(<<"Var", "is">>, "is", <<"Var", "is">>, FALSE) }

\* Ask { Text is+ ask+ ( String | Text | ListAccess )+ }
Ask ==
    { Tr(<<"Var", "is">>, "ask", <<"ask", "kw">>, FALSE),
      Tr(<<"ask", "kw">>, "ask", <<"ask", "kw">>, FALSE) }
    \cup Arguments("ask")

\* Assign { Text is+ (Text+ | ListAccess) }
Assign ==
    { Tr(<<"Var", "is">>, "Text", <<"assign", "text">>, FALSE),
      Tr(<<"assign", "text">>, "Text", <<"assign", "texts">>, TRUE),
      Tr(<<"assign", "texts">>, "Text", <<"assign", "texts">>, TRUE) }
    \cup ListAccess("assign")

\* AssignList { Text is+ Text+ (Op<...> Text+)+ }
AssignList ==
    { Tr(<<"assign", "text">>, "Op", <<"list", "op">>, FALSE),
      Tr(<<"assign", "texts">>, "Op", <<"list", "op">>, FALSE),
      Tr(<<"list", "op">>, "Text", <<"list", "elem">>, FALSE),
      Tr(<<"list", "elem">>, "Text", <<"list", "elem">>, TRUE),
      Tr(<<"list", "elem">>, "Op", <<"list", "op">>, FALSE) }

\* Sleep { sleep+ (Text | ListAccess)? }
Sleep == Argument("sleep")

\* Add { add+ Text+ to_list+ Text }
Add ==
    { Tr(<<"add", "kw">>, "Text", <<"add", "val">>, FALSE),
      Tr(<<"add", "val">>, "Text", <<"add", "val">>, TRUE),
      Tr(<<"add", "val">>, "to_list", <<"add", "prep">>, FALSE),
      Tr(<<"add", "prep">>, "to_list", <<"add", "prep">>, FALSE),
      Tr(<<"add", "prep">>, "Text", <<"add", "done">>, FALSE) }

\* Remove { remove+ Text+ from+ Text }
Remove ==
    { Tr(<<"remove", "kw">>, "Text", <<"remove", "val">>, FALSE),
      Tr(<<"remove", "val">>, "Text", <<"remove", "val">>, TRUE),
      Tr(<<"remove", "val">>, "from", <<"remove", "prep">>, FALSE),
      Tr(<<"remove", "prep">>, "from", <<"remove", "prep">>, FALSE),
      Tr(<<"remove", "prep">>, "Text", <<"remove", "done">>, FALSE) }

\* Play { play+ (ListAccess | Text+) }
Play ==
    { Tr(<<"play", "kw">>, "Text", <<"play", "text">>, FALSE),
      Tr(<<"play", "text">>, "Text", <<"play", "texts">>, TRUE),
      Tr(<<"play", "texts">>, "Text", <<"play", "texts">>, TRUE) }
    \cup ListAccess("play")

\* Turtle { Forward { forward+ (Text | ListAccess) } | Turn {...} | Color {...} }
Turtle == Argument("forward") \cup Argument("turn") \cup Argument("color")

\* ErrorInvalid { Text+ }
ErrorInvalid_single ==
    { Tr(<<"Var", "name">>, "Text", <<"ErrorInvalid", "more">>, FALSE) }

ErrorInvalid ==
    { Tr(<<"Var", "name">>, "Text", <<"ErrorInvalid", "more">>, FALSE),
      Tr(<<"ErrorInvalid", "more">>, "Text", <<"ErrorInvalid", "more">>, FALSE) }

Transitions ==
    Command \cup PrintCommand \cup Var \cup Ask \cup Assign \cup AssignList
    \cup Sleep \cup Add \cup Remove \cup Play \cup Turtle \cup ErrorInvalid

\* The command shape a statement has when it ends in state st ("none": the
\* statement is incomplete there).
Shape(st) ==
    IF st \in {<<"Var", "name">>, <<"ErrorInvalid", "more">>} THEN "ErrorInvalid"
    ELSE IF st[1] = "assign" /\ st[2] \in {"text", "texts", "rnd", "done"}
         THEN "Assign"
    ELSE IF st = <<"list", "elem">> THEN "AssignList"
    ELSE IF st[1] = "ask" /\ st[2] \in {"text", "rnd", "done"} THEN "Ask"
    ELSE IF st[1] = "print" /\ st[2] \in {"text", "rnd", "done"} THEN "Print"
    ELSE IF st[1] = "sleep" /\ st[2] \in {"kw", "text", "rnd", "done"}
         THEN "Sleep"
    ELSE IF st[1] = "play" /\ st[2] \in {"text", "texts", "rnd", "done"}
         THEN "Play"
    ELSE IF st[1] \in {"forward", "turn", "color"}
            /\ st[2] \in {"text", "rnd", "done"} THEN "Turtle"
    ELSE IF st = <<"add", "done">> THEN "Add"
    ELSE IF st = <<"remove", "done">> THEN "Remove"
    ELSE IF st = <<"clear", "kw">> THEN "Clear"
    ELSE "none"

\* Turtle[@isGroup=turtle]: the sub-shape of a Turtle command.
SubShape_allForward(st) ==
    IF st[1] \in {"forward", "turn", "color"} THEN "Forward" ELSE "none"

SubShape(st) ==
    IF st[1] = "forward" THEN "Forward"
    ELSE IF st[1] = "turn" THEN "Turn"
    ELSE IF st[1] = "color" THEN "Color"
    ELSE "none"

\* ErrorInvalid[@dynamicPrecedence=-10]; every other shape has precedence 0.
dynamicPrecedence_flat(shape) == 0

dynamicPrecedence(shape) == IF shape = "ErrorInvalid" THEN 0 - 10 ELSE 0

(***************************************************************************)
(* The parser: a set of stacks run over the tokens of one statement.       *)
(***************************************************************************)
\* The token roles the parser can shift in state st.
Shiftable(st) == { t.on : t \in { u \in Transitions : u.from = st } }

\* The roles of one token in state st.  A String, separator or error token
\* has its own kind as role.  A Text token is replaced by its specialized
\* keyword (@external specialize), and stands for both Text and its extended
\* keyword (@external extend).
TokenRoles_extendReplaces(name, kind, st) ==
    IF kind # "Text" THEN {kind}
    ELSE IF specializeKeyword(name, Shiftable(st)) # {}
         THEN specializeKeyword(name, Shiftable(st))
    ELSE IF extendKeyword(name) # {} THEN extendKeyword(name)
    ELSE {"Text"}

TokenRoles(name, kind, st) ==
    IF kind # "Text" THEN {kind}
    ELSE IF specializeKeyword(name, Shiftable(st)) # {}
         THEN specializeKeyword(name, Shiftable(st))
    ELSE extendKeyword(name) \cup {"Text"}

Start == [state |-> <<"Command", "start">>, children |-> <<>>, roles |-> <<>>]

\* The stacks after stack c shifts a token of role r.
Shift(c, r) ==
    { [state    |-> t.to,
       children |-> IF t.join
                    THEN [c.children EXCEPT ![Len(c.children)] = Append(@, r)]
                    ELSE Append(c.children, <<r>>),
       roles    |-> Append(c.roles, r)] :
      t \in { u \in Transitions : u.from = c.state /\ u.on = r } }

Advance(cs, name, kind) ==
    UNION { UNION { Shift(c, r) : r \in TokenRoles(name, kind, c.state) } :
            c \in cs }

Spelling(s, t) == SubSeq(s, t.from, t.to)

\* The live stacks after the statement tokens toks of input s.
RECURSIVE Stacks(_, _)
Stacks(s, toks) ==
    IF toks = <<>> THEN {Start}
    ELSE LET t == toks[Len(toks)] IN
         Advance(Stacks(s, SubSeq(toks, 1, Len(toks) - 1)),
                 Spelling(s, t), t.kind)

\* The complete parses of a statement, and those of highest precedence.
Candidates(s, toks) == { c \in Stacks(s, toks) : Shape(c.state) # "none" }

Best(s, toks) ==
    { c \in Candidates(s, toks) :
        \A d \in Candidates(s, toks) :
            dynamicPrecedence(Shape(d.state)) <= dynamicPrecedence(Shape(c.state)) }

\* The Command node of a finished stack over tokens first..last; a statement
\* without any complete parse leaves an error node, shape "Error".
Node(c, first, last) ==
    [shape |-> Shape(c.state), sub |-> SubShape(c.state),
     children |-> c.children, roles |-> c.roles,
     first |-> first, last |-> last]

ErrorNode(first, last) ==
    [shape |-> "Error", sub |-> "none", children |-> <<>>, roles |-> <<>>,
     first |-> first, last |-> last]

(***************************************************************************)
(* Program { newline* (Command newline+)* Command? }                       *)
(***************************************************************************)
SelectKinds(toks, first, last) ==
    LET F[i \in first..(last + 1)] ==
            IF i > last THEN <<>>
            ELSE IF toks[i].kind \in skip THEN F[i + 1]
            ELSE <<toks[i]>> \o F[i + 1]
    IN F[first]

\* Indices from i on of tokens that belong to a statement.
Pending(toks, i) ==
    { k \in i..Len(toks) : toks[k].kind \notin skip \cup {"newline"} }

Min(S) == CHOOSE x \in S : \A y \in S : x <= y
Max(S) == CHOOSE x \in S : \A y \in S : y <= x

\* The last token of the line that holds token i.
LineEnd_acrossNewline(toks, i) == Len(toks)

LineEnd(toks, i) ==
    LET nls == { k \in i..Len(toks) : toks[k].kind = "newline" }
    IN IF nls = {} THEN Len(toks) ELSE Min(nls) - 1

(***************************************************************************)
(* The inputs of the model: statements of up to MaxWords words, list       *)
(* assignments with every separator, programs of up to MaxLines lines;     *)
(* and, for the tokens, every string of up to MaxLen characters of an      *)
(* alphabet with one character of each class.                              *)
(***************************************************************************)
\* a 1 ! space newline # , " \ tab | U+00A0 U+00A1 U+060C
Alphabet == {97, 49, 33, SP, NL, HASH, 44, DQUOTE, BACKSLASH, 9, 124, 160,
             161, 1548}

CharInputs == SeqsUpTo(Alphabet, MaxLen)

K == KeywordTable
NameA == <<97>>
Two == <<50>>
Quoted == <<DQUOTE, 104, 105, DQUOTE>>

CommonWords == {NameA, K.is, K.at}

WordGroups ==
    { {K.print, K.random}, {K.ask, Quoted}, {K.forward, K.turn},
      {K.color, K.random}, {K.sleep, K.play}, {K.clear, Quoted},
      {K.add, K.to_list}, {K.remove, K.from}, {<<44>>, Two} }

WordInputs ==
    { JoinWith(ws, <<SP>>) :
        ws \in UNION { SeqsUpTo(CommonWords \cup g, MaxWords) : g \in WordGroups } }

\* Text is e1 SEP e2 SEP e3, each SEP one of the four commas, with or
\* without a space on either side.
Separators ==
    { l \o <<c>> \o r : l \in {<<>>, <<SP>>}, c \in Op, r \in {<<>>, <<SP>>} }

ListInputs ==
    { v \o <<SP>> \o K.is \o <<SP>> \o e[1] \o p[1] \o e[2] \o p[2] \o e[3] :
        v \in {NameA, K.print},
        e \in [1..3 -> {Two, K.at}],
        p \in [1..2 -> Separators] }

Lines ==
    { <<>>, <<SP>>, <<HASH, 99>>, NameA, NameA \o <<SP, HASH, 99>>,
      K.print \o <<SP>> \o NameA, Quoted }

LineInputs == { JoinWith(ls, <<NL>>) : ls \in SeqsUpTo(Lines, MaxLines) }

Inputs == WordInputs \cup ListInputs \cup LineInputs

(***************************************************************************)
(* The parse of one input: lex, then one Command per statement.            *)
(***************************************************************************)
ParseInit ==
    /\ input \in Inputs
    /\ pc = "lex"
    /\ tokens = <<>>
    /\ next = 1
    /\ program = <<>>

Lex ==
    /\ pc = "lex"
    /\ tokens' = LexFrom(input, 1)
    /\ pc' = "parse"
    /\ UNCHANGED <<input, next, program>>

\* The next statement: the non-skipped tokens of the next non-empty line.
ParseCommand ==
    /\ pc = "parse"
    /\ Pending(tokens, next) # {}
    /\ LET first == Min(Pending(tokens, next))
           last  == LineEnd(tokens, first)
           stmt  == SelectKinds(tokens, first, last)
           end   == Max({ k \in first..last : tokens[k].kind \notin skip })
       IN /\ \/ \E c \in Best(input, stmt) :
                    program' = Append(program, Node(c, first, end))
             \/ /\ Candidates(input, stmt) = {}
                /\ program' = Append(program, ErrorNode(first, end))
          /\ next' = last + 1
    /\ UNCHANGED <<input, pc, tokens>>

EndOfInput ==
    /\ pc = "parse"
    /\ Pending(tokens, next) = {}
    /\ pc' = "done"
    /\ next' = Len(tokens) + 1
    /\ UNCHANGED <<input, tokens, program>>

(***************************************************************************)
(* The "disable-element" extension.  The page has elements that trigger    *)
(* requests; hx-disable-element names the element to disable, "self" when  *)
(* absent.  inflight[e] counts the requests of e that are in flight.       *)
(***************************************************************************)
Elements == {"save", "next", "prev", "ghost", "panel", "document"}

\* elt.getAttribute exists on elements, not on the document.
hasGetAttribute == [e \in Elements |-> e # "document"]

\* elt.getAttribute("hx-disable-element") ?? "self"
target ==
    [e \in Elements |->
        IF e \in {"next", "prev"} THEN "#panel"
        ELSE IF e = "ghost" THEN "#missing"
        ELSE "self"]

\* document.querySelector(selector); "null" when nothing matches.
querySelector(selector) == IF selector = "#panel" THEN "panel" ELSE "null"

targetElement(elt) ==
    IF target[elt] = "self" THEN elt ELSE querySelector(target[elt])

\* onEvent(name, evt): the disabled flags after the handler ran for elt.
onEvent(name, elt, d) ==
    IF ~hasGetAttribute[elt] THEN d
    ELSE IF name = "htmx:beforeRequest" /\ targetElement(elt) # "null"
         THEN [d EXCEPT ![targetElement(elt)] = TRUE]
    ELSE IF name = "htmx:afterRequest" /\ targetElement(elt) # "null"
         THEN [d EXCEPT ![targetElement(elt)] = FALSE]
    ELSE d

HtmxInit ==
    /\ disabled = [e \in Elements |-> FALSE]
    /\ inflight = [e \in Elements |-> 0]

\* An enabled element triggers a request: htmx:beforeRequest.
BeforeRequest(elt) ==
    /\ ~disabled[elt]
    /\ inflight[elt] < MaxInFlight
    /\ inflight' = [inflight EXCEPT ![elt] = @ + 1]
    /\ disabled' = onEvent("htmx:beforeRequest", elt, disabled)

\* A request of elt completes: htmx:afterRequest.
AfterRequest(elt) ==
    /\ inflight[elt] > 0
    /\ inflight' = [inflight EXCEPT ![elt] = @ - 1]
    /\ disabled' = onEvent("htmx:afterRequest", elt, disabled)

(***************************************************************************)
(* The Parsons exercise page.  handlers is the list of click handlers      *)
(* bound to #next_parson_button, each named by the exercise it loads;      *)
(* requests[e] counts the $.ajax GET requests for exercise e that have     *)
(* been sent and not yet answered; xs is the array being shuffled (the     *)
(* order in which the lines are shown) and xi the loop index i of the      *)
(* shuffle.                                                                *)
(***************************************************************************)
Exercises == 1..MaxExercise

NoRequests == [e \in Exercises |-> 0]

\* Object.keys(code_lines) for a response of n lines: "1", ..., "n".
keys(n) == [k \in 1..n |-> k]

\* Math.floor(Math.random() * i), Math.random() being in [0, 1).
random(k) == 0..(k - 1)

\* const h = xs[j]; xs[j] = xs[i]; xs[i] = h;  (indices from 0)
swap(a, j, k) == [a EXCEPT ![j + 1] = a[k + 1], ![k + 1] = a[j + 1]]

\* The arrays the loop can leave when it is entered at index k.
RECURSIVE shuffleFrom(_, _)
shuffleFrom(a, k) ==
    IF k >= 1
    THEN UNION { shuffleFrom(swap(a, j, k), k - 1) : j \in random(k) }
    ELSE {a}

fisherYatesShuffle(a) == shuffleFrom(a, Len(a) - 1)

\* showExercise: the keys of the response, shuffled.
showExercise(n) == fisherYatesShuffle(keys(n))

\* The request sent by loadParsonsExercise(level, exercise).
loadParsonsExercise(r, exercise) == [r EXCEPT ![exercise] = @ + 1]

\* .on("click", ...) adds a handler; .off("click") removes all of them.
updateNextExerciseButton(h, exercise) ==
    IF exercise < max_exercise
    THEN Append(h, exercise + 1)
    ELSE <<>>

\* No Parsons page is open.
NoParsons ==
    /\ handlers = <<>>
    /\ current_exercise = 0
    /\ max_exercise = 1
    /\ requests = NoRequests
    /\ xs = <<>>
    /\ xi = -1

\* The page has called loadParsonsExercise(level, 1).
ParsonsInit ==
    /\ handlers = <<>>
    /\ current_exercise = 0
    /\ max_exercise \in Exercises
    /\ requests = loadParsonsExercise(NoRequests, 1)
    /\ xs = <<>>
    /\ xi = -1

RECURSIVE RunHandlers(_, _)
RunHandlers(h, r) ==
    IF h = <<>> THEN r
    ELSE RunHandlers(Tail(h), loadParsonsExercise(r, Head(h)))

\* A click on the button, once the answers to all requests have come in:
\* every handler bound to the button runs.
Click ==
    /\ requests = NoRequests
    /\ handlers # <<>>
    /\ Len(handlers) <= MaxHandlers
    /\ requests' = RunHandlers(handlers, requests)
    /\ UNCHANGED <<handlers, current_exercise, max_exercise, xs, xi>>

\* The .done callback of the request for exercise e, whose response has
\* n lines of code.
AjaxDone(e) ==
    /\ requests[e] > 0
    /\ requests' = [requests EXCEPT ![e] = @ - 1]
    /\ current_exercise' = e
    /\ \E n \in 0..MaxN :
          /\ xs' \in showExercise(n)
          /\ xi' = IF n >= 1 THEN 0 ELSE -1
    /\ handlers' = updateNextExerciseButton(handlers, e)
    /\ UNCHANGED max_exercise

\* The .fail callback: an error message, nothing else.
AjaxFail(e) ==
    /\ requests[e] > 0
    /\ requests' = [requests EXCEPT ![e] = @ - 1]
    /\ UNCHANGED <<handlers, current_exercise, max_exercise, xs, xi>>

\* One iteration of the loop of fisherYatesShuffle.
ShuffleStep ==
    /\ xi >= 1
    /\ \E j \in random(xi) : xs' = swap(xs, j, xi)
    /\ xi' = xi - 1
    /\ UNCHANGED buttonVars

Init ==
    /\ ParseInit
    /\ HtmxInit
    /\ NoParsons

Next ==
    \/ Lex /\ UNCHANGED <<htmxVars, parsonsVars>>
    \/ ParseCommand /\ UNCHANGED <<htmxVars, parsonsVars>>
    \/ EndOfInput /\ UNCHANGED <<htmxVars, parsonsVars>>

Spec == Init /\ [][Next]_vars

\* The same parser run on every string of up to MaxLen characters.
InitLex ==
    /\ input \in CharInputs
    /\ pc = "lex"
    /\ tokens = <<>>
    /\ next = 1
    /\ program = <<>>
    /\ HtmxInit
    /\ NoParsons

SpecLex == InitLex /\ [][Next]_vars

NoParse ==
    /\ input = <<>>
    /\ pc = "done"
    /\ tokens = <<>>
    /\ next = 1
    /\ program = <<>>

InitHtmx ==
    /\ HtmxInit
    /\ NoParse
    /\ NoParsons

NextHtmx ==
    \/ \E elt \in Elements :
          BeforeRequest(elt) /\ UNCHANGED <<parseVars, parsonsVars>>
    \/ \E elt \in Elements :
          AfterRequest(elt) /\ UNCHANGED <<parseVars, parsonsVars>>

SpecHtmx == InitHtmx /\ [][NextHtmx]_vars

InitParsons ==
    /\ ParsonsInit
    /\ NoParse
    /\ HtmxInit

NextParsons ==
    \/ Click /\ UNCHANGED <<parseVars, htmxVars>>
    \/ \E e \in Exercises : AjaxDone(e) /\ UNCHANGED <<parseVars, htmxVars>>
    \/ \E e \in Exercises : AjaxFail(e) /\ UNCHANGED <<parseVars, htmxVars>>

SpecParsons == InitParsons /\ [][NextParsons]_vars

\* fisherYatesShuffle called on the keys of a response of up to MaxN lines.
InitShuffle ==
    /\ \E n \in 0..MaxN :
          /\ xs = keys(n)
          /\ xi = n - 1
    /\ handlers = <<>>
    /\ current_exercise = 0
    /\ max_exercise = 1
    /\ requests = NoRequests
    /\ NoParse
    /\ HtmxInit

NextShuffle == ShuffleStep /\ UNCHANGED <<parseVars, htmxVars>>

SpecShuffle == InitShuffle /\ [][NextShuffle]_vars

TypeOK == pc \in {"lex", "parse", "done"}

(***************************************************************************)
(* Vocabulary of the properties.                                           *)
(***************************************************************************)
Named == {"Assign", "AssignList", "Ask", "Clear", "Print", "Play", "Turtle",
          "Sleep", "Add", "Remove"}

\* The Command nodes of the finished Program.
Nodes == IF pc = "done" THEN { program[i] : i \in 1..Len(program) } ELSE {}

\* The tokens of the statement under node n, and the shapes they match.
Stmt(n) == SelectKinds(tokens, n.first, n.last)

Shapes(n) == { Shape(c.state) : c \in Candidates(input, Stmt(n)) }

AllText(n) == \A i \in 1..Len(Stmt(n)) : Stmt(n)[i].kind = "Text"

Lexable == \A i \in 1..Len(tokens) : tokens[i].kind # "Err"

Words(n) == [i \in 1..Len(Stmt(n)) |-> Spelling(input, Stmt(n)[i])]

(***************************************************************************)
(* C1 - Precedence law: a statement that matches both a named command      *)
(* shape and ErrorInvalid is given the named shape, never ErrorInvalid.    *)
(***************************************************************************)
C1_PrecedenceLaw ==
    \A n \in Nodes :
        ("ErrorInvalid" \in Shapes(n) /\ Shapes(n) \cap Named # {})
            => n.shape \in Named

C1_Witness ==
    \E n \in Nodes :
        /\ "ErrorInvalid" \in Shapes(n)
        /\ Shapes(n) \cap Named # {}
        /\ n.shape \in Named

C3_LexerTotal ==
    pc # "lex" =>
        /\ (input # <<>> => /\ tokens # <<>>
                            /\ tokens[1].from = 1
                            /\ tokens[Len(tokens)].to = Len(input))
        /\ \A i \in 1..Len(tokens) :
              /\ tokens[i].from <= tokens[i].to
              /\ i > 1 => tokens[i].from = tokens[i - 1].to + 1
              /\ tokens[i].kind \in
                    {"Text", "String", "Comment", "space", "newline", "Op"}

(***************************************************************************)
(* C4 - Separator equivalence: Text is e1 SEP e2 SEP e3 is an AssignList   *)
(* of three elements for every choice and mix of the four commas, with or  *)
(* without spaces around them.                                             *)
(***************************************************************************)
ListElements(n) ==
    Cardinality({ i \in 3..Len(n.children) : n.children[i][1] = "Text" })

C4_SeparatorEquivalence ==
    (pc = "done" /\ input \in ListInputs) =>
        /\ Len(program) = 1
        /\ program[1].shape = "AssignList"
        /\ ListElements(program[1]) = 3
        /\ \A i \in 3..Len(program[1].children) :
              Len(program[1].children[i]) = 1

C4_Witness ==
    /\ pc = "done"
    /\ input \in ListInputs
    /\ \E i, j \in 1..Len(tokens) :
          /\ tokens[i].kind = "Op" /\ tokens[j].kind = "Op"
          /\ input[tokens[i].from] = 1548
          /\ input[tokens[j].from] = 12289
    /\ program[1].shape = "AssignList"

(***************************************************************************)
(* C5 - Program structure.  As claimed: for every input the Program holds  *)
(* exactly one Command per non-empty line, in source order, none spanning  *)
(* a newline; empty lines (nothing but spaces and comments) give no node.  *)
(***************************************************************************)
LineNo(k) == 1 + Cardinality({ j \in 1..(k - 1) : tokens[j].kind = "newline" })

StatementTokens == Pending(tokens, 1)

NonEmptyLines == { LineNo(k) : k \in StatementTokens }

LineTokens(l) == { k \in StatementTokens : LineNo(k) = l }

LineMatches(l) ==
    Candidates(input,
               SelectKinds(tokens, Min(LineTokens(l)), Max(LineTokens(l)))) # {}

OneCommandPerLine ==
    /\ Len(program) = Cardinality(NonEmptyLines)
    /\ \A i \in 1..Len(program) :
          LET n == program[i]
              l == LineNo(n.first)
          IN /\ n.shape \in Named \cup {"ErrorInvalid"}
             /\ l \in NonEmptyLines
             /\ Cardinality({ m \in NonEmptyLines : m < l }) = i - 1
             /\ n.first = Min(LineTokens(l))
             /\ n.last = Max(LineTokens(l))
             /\ Len(n.roles) = Cardinality(LineTokens(l))
             /\ \A k \in n.first..n.last : tokens[k].kind # "newline"

KeywordRoles(name) == { r \in specialized \cup extended : KeywordTable[r] = name }

IndexRole(x) == IF x = K.random THEN "random" ELSE "Text"

ArgumentSlots ==
    { [w |-> <<K[k]>>, r |-> <<k>>] :
        k \in {"print", "sleep", "play", "forward", "turn", "color"} }
    \cup { [w |-> <<NameA, K.is>>, r |-> <<"Text", "is">>],
           [w |-> <<NameA, K.is, K.ask>>, r |-> <<"Text", "is", "ask">>] }

TurtleOf == [forward |-> "Forward", turn |-> "Turn", color |-> "Color"]

IsListAccess(ch) ==
    /\ Len(ch) >= 3
    /\ ch[1] = "Text"
    /\ \E m \in 2..(Len(ch) - 1) :
          /\ \A j \in 2..m : ch[j] = "at"
          /\ \/ m = Len(ch) - 1 /\ ch[Len(ch)] = "Text"
             \/ \A j \in (m + 1)..Len(ch) : ch[j] = "random"

IsArgument(ch) == ch = <<"Text">> \/ IsListAccess(ch)

TurtleNode(n, kw) ==
    LET k == Len(n.children) - 1 IN
    /\ k >= 1
    /\ \A j \in 1..k : n.children[j] = <<kw>> /\ Words(n)[j] = K[kw]
    /\ IsArgument(n.children[k + 1])
    /\ n.sub = TurtleOf[kw]

RequestsOn(t) == { e \in Elements : hasGetAttribute[e] /\ targetElement(e) = t
                                    /\ inflight[e] > 0 }

C10_DisabledWhileInFlight ==
    \A t \in Elements \ {"document"} :
        /\ RequestsOn(t) # {} => disabled[t]
        /\ RequestsOn(t) = {} => ~disabled[t]

(***************************************************************************)
(* C11 - Newline isolation: no Text, String, Comment or space token holds  *)
(* a newline character; a Comment starts at '#' and ends right before the  *)
(* next newline (or at the end of the input); every newline character of   *)
(* the input is a newline token of its own.                                *)
(***************************************************************************)
C11_NewlineIsolation ==
    pc # "lex" =>
        /\ \A i \in 1..Len(tokens) :
              LET t == tokens[i] IN
              /\ t.kind \in {"Text", "String", "Comment", "space"}
                    => \A k \in t.from..t.to : input[k] # NL
              /\ t.kind = "Comment"
                    => /\ input[t.from] = HASH
                       /\ (t.to = Len(input) \/ input[t.to + 1] = NL)
              /\ t.kind = "newline" => t.from = t.to /\ input[t.from] = NL
        /\ \A k \in 1..Len(input) :
              input[k] = NL
                => \E i \in 1..Len(tokens) :
                      tokens[i] = Tok("newline", k, k)

C11_Witness ==
    /\ pc # "lex"
    /\ Len(tokens) = 2
    /\ tokens[1] = Tok("Comment", 1, 2)
    /\ tokens[2] = Tok("newline", 3, 3)

(***************************************************************************)
(* C12 - Once every load has completed and an exercise is shown, the       *)
(* next-exercise button carries exactly one click handler, loading the     *)
(* exercise after the one shown, or none when the exercise shown is the    *)
(* last; and a click sends at most one request.                            *)
(***************************************************************************)
RequestCount == LET RECURSIVE Sum(_)
                    Sum(e) == IF e = 0 THEN 0 ELSE requests[e] + Sum(e - 1)
                IN  Sum(MaxExercise)

C12_OneHandler ==
    /\ (requests = NoRequests /\ current_exercise >= 1)
          => handlers = IF current_exercise < max_exercise
                        THEN <<current_exercise + 1>>
                        ELSE <<>>
    /\ RequestCount <= 1

(***************************************************************************)
(* C13 - When the shuffle has finished, the array is a permutation of the  *)
(* original elements, and every ordering of them (the original order       *)
(* included) is a possible result of the shuffle.                          *)
(***************************************************************************)
Orderings(n) ==
    { f \in [1..n -> 1..n] : \A a, b \in 1..n : a # b => f[a] # f[b] }

C13_FullShuffle ==
    xi < 1 =>
        /\ xs \in Orderings(Len(xs))
        /\ Orderings(Len(xs)) \subseteq fisherYatesShuffle(keys(Len(xs)))

====
